---- MODULE Spec2Model ----
(***************************************************************************)
(* A model of these parts of the font tool set:                            *)
(*   - the naming-table operations of TTFontCLI (delMacNames, findReplace) *)
(*     and of the del_mac_names command,                                   *)
(*   - setMultilingualName and delMultilingualName (SpecLang), recalcNames *)
(*     (SpecRecalc) and modifyLinegapPercent (SpecMetrics) of TTFontCLI,   *)
(*   - the overlap removal of contours.py (fix_true_type_contours,         *)
(*     removeTTGlyphOverlaps, _simplify),                                  *)
(*   - the per-font loop of the name commands of ftcli_name.py.            *)
(* Each part has its own specification (SpecName, SpecGlyf, SpecCLI) over  *)
(* the same variables; a specification leaves the other parts' variables   *)
(* alone.                                                                  *)
(***************************************************************************)
EXTENDS Integers, Sequences, FiniteSets, TLC

VARIABLES
    names,      \* font['name'].names: the list of NameRecords
    names0,     \* the list before the operation
    call,       \* the operation applied to the name table, with its arguments
    ttFont,     \* the fields of the OS/2, head, hhea and CFF tables
    glyfTable,  \* font["glyf"]: glyph name -> glyph
    hmtxTable,  \* font["hmtx"]: glyph name -> [width, lsb]
    glyf0,      \* the glyf table as loaded
    opts,       \* the arguments of fix_true_type_contours
    skia,       \* the paths skia-pathops fails to simplify
    todo,       \* the sorted glyph names still to process
    done,       \* the glyph names processed so far, in order
    modified,   \* the set of glyph names whose glyph was replaced
    last,       \* the last call of removeTTGlyphOverlaps
    pc,         \* where fix_true_type_contours is
    cmd,        \* the name command invoked, with its options
    files,      \* the name tables of the font files under input_path
    fonts,      \* the fonts get_fonts_in_path returned, once it was called
    loaded,     \* whether get_fonts_in_path was called
    idx,        \* the index of the next font of the for loop
    check,      \* the result of initial_check_pass, once it was called
    out,        \* the messages printed, in order
    cpc         \* where the command is

nameVars == <<names, names0, call, ttFont>>

glyfVars == <<glyfTable, hmtxTable, glyf0, opts, skia, todo, done, modified, last, pc>>

cliVars == <<cmd, files, fonts, loaded, idx, check, out, cpc>>

vars == <<nameVars, glyfVars, cliVars>>

\* Python's None, where an integer (a nameID, a langID) is expected.
None == -1

\* Python's None, where a string (platform) is expected.
NoPlatform == "None"

(***************************************************************************)
(* Strings are sequences of one-character strings.                         *)
(***************************************************************************)

\* Python: s.startswith(old, i - 1)
StartsAt(s, old, i) ==
    /\ i + Len(old) - 1 <= Len(s)
    /\ \A k \in 1..Len(old) : s[i + k - 1] = old[k]

\* Python: old in s
Contains(s, old) == \E i \in 1..(Len(s) + 1) : StartsAt(s, old, i)

RECURSIVE ReplaceFrom(_, _, _, _)
\* Python: s.replace(old, new) for a non-empty old: leftmost, non-overlapping.
\* What is left of s from index i on: up to the next occurrence of old as it
\* is, then new, then the rest after the occurrence.
ReplaceFrom(s, old, new, i) ==
    LET hits == { k \in i..Len(s) : StartsAt(s, old, k) }
    IN  IF hits = {} THEN SubSeq(s, i, Len(s))
        ELSE LET p == CHOOSE k \in hits : \A j \in hits : k <= j
             IN  SubSeq(s, i, p - 1) \o new
                     \o ReplaceFrom(s, old, new, p + Len(old))

\* Python: s.replace("", new) puts new before every character and at the end.
Interleave(s, new, i) ==
    LET block == Len(new) + 1
    IN  [k \in 1..(Len(s) * block + Len(new)) |->
            IF (k - 1) % block < Len(new) THEN new[((k - 1) % block) + 1]
            ELSE s[((k - 1) \div block) + 1]]

\* F(x), with x evaluated once, before F is applied to its value.
Bind(x, F(_)) == CHOOSE r \in { F(v) : v \in {x} } : TRUE

StrReplace(s, old, new) ==
    Bind(s, LAMBDA v : IF old = <<>> THEN Interleave(v, new, 1)
                       ELSE ReplaceFrom(v, old, new, 1))

RECURSIVE LStrip(_)
LStrip(s) == IF s # <<>> /\ Head(s) = " " THEN LStrip(Tail(s)) ELSE s

RECURSIVE RStrip(_)
RStrip(s) ==
    IF s # <<>> /\ s[Len(s)] = " " THEN RStrip(SubSeq(s, 1, Len(s) - 1)) ELSE s

\* Python: s.strip()
Strip(s) == Bind(s, LAMBDA v : RStrip(LStrip(v)))

\* str(name).replace(oldString, newString).replace("  ", " ").strip()
ReplacedString(s, old, new) ==
    Strip(StrReplace(StrReplace(s, old, new), <<" ", " ">>, <<" ">>))

(***************************************************************************)
(* The name table.  A NameRecord is a record                               *)
(*   [nameID, platformID, platEncID, langID, string].                      *)
(***************************************************************************)

MaxNames == 3

NameIDs == {1, 3}

\* (platformID, platEncID, langID): Macintosh Roman English, Windows Unicode
\* English (0x409) and Windows Unicode Italian (0x410).
PlatformKeys == {<<1, 0, 0>>, <<3, 1, 1033>>, <<3, 1, 1040>>}

NameStrings == {<<"b">>, <<"a", "b">>, <<"b", " ", "a", " ", "b">>}

NameRecords ==
    { [nameID |-> n, platformID |-> k[1], platEncID |-> k[2], langID |-> k[3],
       string |-> s] : n \in NameIDs, k \in PlatformKeys, s \in NameStrings }

\* NameRecord.__lt__ orders by (platformID, platEncID, langID, nameID).
NameKey(r) == <<r.platformID, r.platEncID, r.langID, r.nameID>>

KeyLess(a, b) ==
    \E k \in 1..4 :
        /\ NameKey(a)[k] < NameKey(b)[k]
        /\ \A j \in 1..(k - 1) : NameKey(a)[j] = NameKey(b)[j]

\* The name table of a font file: sorted, no two records with the same key.
NameTables ==
    UNION { { t \in [1..k -> NameRecords] :
                \A i \in 1..(k - 1) : KeyLess(t[i], t[i + 1]) }
            : k \in 0..MaxNames }

MatchArg(arg, value) == arg = None \/ arg = value

\* fontTools table__n_a_m_e.removeNames: drops the records that match every
\* argument that is not None; with no argument given it does nothing.
removeNames(ns, nameID, platformID, platEncID, langID) ==
    IF nameID = None /\ platformID = None /\ platEncID = None /\ langID = None
    THEN ns
    ELSE SelectSeq(ns, LAMBDA r :
            ~ ( /\ MatchArg(nameID, r.nameID)
                /\ MatchArg(platformID, r.platformID)
                /\ MatchArg(platEncID, r.platEncID)
                /\ MatchArg(langID, r.langID) ))

\* fontTools table__n_a_m_e.getName: the index of the first matching record,
\* 0 for None.
getName(ns, nameID, platformID, platEncID, langID) ==
    LET hits == { i \in 1..Len(ns) :
                    /\ ns[i].nameID = nameID
                    /\ ns[i].platformID = platformID
                    /\ ns[i].platEncID = platEncID
                    /\ MatchArg(langID, ns[i].langID) }
    IN  IF hits = {} THEN 0 ELSE CHOOSE i \in hits : \A j \in hits : i <= j

\* fontTools table__n_a_m_e.setName: overwrites the string of the matching
\* record, or appends a new record.
setName(ns, string, nameID, platformID, platEncID, langID) ==
    LET i == getName(ns, nameID, platformID, platEncID, langID)
    IN  IF i # 0 THEN [ns EXCEPT ![i].string = string]
        ELSE Append(ns, [nameID |-> nameID, platformID |-> platformID,
                         platEncID |-> platEncID, langID |-> langID,
                         string |-> string])

(***************************************************************************)
(* TTFontCLI.delMacNames                                                   *)
(***************************************************************************)

RECURSIVE DelMacLoop(_, _, _, _)
\* The for loop walks the list object that was current when it started (orig);
\* removeNames rebinds the table's list (cur) to a new one each time.
DelMacLoop(orig, cur, i, exclude_namerecord) ==
    IF i > Len(orig) THEN cur
    ELSE LET name == orig[i]
         IN  IF name.platformID # 1 \/ name.nameID \in exclude_namerecord
             THEN DelMacLoop(orig, cur, i + 1, exclude_namerecord)
             ELSE DelMacLoop(orig,
                             removeNames(cur, name.nameID, name.platformID,
                                         name.platEncID, name.langID),
                             i + 1, exclude_namerecord)

\* Variant: the exclude list is forgotten.
DelMacNamesIgnoringExclude(ns, exclude_namerecord) == DelMacLoop(ns, ns, 1, {})

\* exclude_namerecord is the set of the list's members (None: the empty list).
delMacNames(ns, exclude_namerecord) == DelMacLoop(ns, ns, 1, exclude_namerecord)

(***************************************************************************)
(* The del_mac_names command's table operation                             *)
(***************************************************************************)

\* TableName.del_names(name_ids, platform_id): removes the records whose
\* nameID is one of name_ids and whose platformID is platform_id.
del_names(ns, name_ids, platform_id) ==
    SelectSeq(ns, LAMBDA r :
        ~ (r.nameID \in name_ids /\ MatchArg(platform_id, r.platformID)))

MacNamesKept == {1, 2, 4, 5, 6}

del_mac_names_table(ns, del_all) ==
    LET all_ids  == { ns[i].nameID : i \in { j \in 1..Len(ns) : ns[j].platformID = 1 } }
        name_ids == IF del_all THEN all_ids ELSE all_ids \ MacNamesKept
    IN  del_names(ns, name_ids, 1)

(***************************************************************************)
(* TTFontCLI.findReplace (a font without a 'CFF ' table, or fixCFF False:  *)
(* the CFF part does not touch the name table)                             *)
(***************************************************************************)

InSeq(x, seq) == \E i \in 1..Len(seq) : seq[i] = x

\* Python: list.remove(x), the first occurrence only.
RemoveFirst(seq, x) ==
    LET i == CHOOSE k \in 1..Len(seq) :
                 seq[k] = x /\ \A j \in 1..(k - 1) : seq[j] # x
    IN  SubSeq(seq, 1, i - 1) \o SubSeq(seq, i + 1, Len(seq))

RECURSIVE PlatformsOfTable(_, _, _)
PlatformsOfTable(ns, i, platforms_list) ==
    IF i > Len(ns) THEN platforms_list
    ELSE PlatformsOfTable(ns, i + 1,
            IF InSeq(ns[i].platformID, platforms_list) THEN platforms_list
            ELSE Append(platforms_list, ns[i].platformID))

\* Variant: platform 'win' selects the Macintosh records too.
PlatformsListWinAlsoMac(ns, platform) ==
    LET mac == IF platform = "mac" THEN <<1>> ELSE <<>>
        win == IF platform = "win" THEN <<1, 3>> ELSE <<>>
    IN  IF platform = NoPlatform THEN PlatformsOfTable(ns, 1, mac \o win)
        ELSE mac \o win

PlatformsList(ns, platform) ==
    LET mac == IF platform = "mac" THEN <<1>> ELSE <<>>
        win == IF platform = "win" THEN <<3>> ELSE <<>>
    IN  IF platform = NoPlatform THEN PlatformsOfTable(ns, 1, mac \o win)
        ELSE mac \o win

RECURSIVE NamesOfPlatforms(_, _, _)
NamesOfPlatforms(ns, i, platforms_list) ==
    IF i > Len(ns) THEN <<>>
    ELSE (IF InSeq(ns[i].platformID, platforms_list)
          THEN <<  <<ns[i].platformID, ns[i].nameID>>  >> ELSE <<>>)
         \o NamesOfPlatforms(ns, i + 1, platforms_list)

NamesList(ns, nameID, platforms_list) ==
    IF nameID # None
    THEN [k \in 1..Len(platforms_list) |-> <<platforms_list[k], nameID>>]
    ELSE NamesOfPlatforms(ns, 1, platforms_list)

RECURSIVE RemoveIgnored(_, _, _, _)
\* If a nameID is excluded, it won't be changed even if it's explicitly included.
RemoveIgnored(ns, i, names_list, namerecords_to_ignore) ==
    IF i > Len(ns) THEN names_list
    ELSE LET pair == <<ns[i].platformID, ns[i].nameID>>
         IN  RemoveIgnored(ns, i + 1,
                IF ns[i].nameID \in namerecords_to_ignore /\ InSeq(pair, names_list)
                THEN RemoveFirst(names_list, pair) ELSE names_list,
                namerecords_to_ignore)

\* Variant: the excluded nameIDs are not taken out of names_list.
KeepIgnored(ns, names_list, namerecords_to_ignore) == names_list

IgnoreFilter(ns, names_list, namerecords_to_ignore) ==
    IF namerecords_to_ignore # {}
    THEN RemoveIgnored(ns, 1, names_list, namerecords_to_ignore)
    ELSE names_list

RECURSIVE ReplaceLoop(_, _, _, _, _, _)
\* The loop walks the table's list while setName writes into it.
ReplaceLoop(cur, i, names_list, oldString, newString, fixCount) ==
    IF i > Len(cur) THEN [names |-> cur, fixCount |-> fixCount]
    ELSE LET name == cur[i]
         IN  IF /\ InSeq(<<name.platformID, name.nameID>>, names_list)
                /\ Contains(name.string, oldString)
             THEN ReplaceLoop(
                    setName(cur, ReplacedString(name.string, oldString, newString),
                            name.nameID, name.platformID, name.platEncID, name.langID),
                    i + 1, names_list, oldString, newString, fixCount + 1)
             ELSE ReplaceLoop(cur, i + 1, names_list, oldString, newString, fixCount)

findReplace(ns, oldString, newString, nameID, platform, namerecords_to_ignore) ==
    LET platforms_list == PlatformsList(ns, platform)
        names_list == IgnoreFilter(ns, NamesList(ns, nameID, platforms_list),
                                   namerecords_to_ignore)
    IN  ReplaceLoop(ns, 1, names_list, oldString, newString, 0)

(***************************************************************************)
(* The name-table specification: one operation applied to a loaded table.  *)
(***************************************************************************)

OldStrings == {<<>>, <<"a">>, <<"a", " ">>}
NewStrings == {<<>>, <<"c">>}
ExcludeSets == {{}, {3}, MacNamesKept}
IgnoreSets == {{}, {1}, {3}, {1, 3}}
Platforms == {NoPlatform, "mac", "win"}

NoCall ==
    [op |-> "load", oldString |-> <<>>, newString |-> <<>>, nameID |-> None,
     platform |-> NoPlatform, ignore |-> {}, del_all |-> FALSE, fixCount |-> 0]

\* The glyph variables of a specification that does not touch outlines.
GlyfIdle ==
    /\ glyfTable = <<>>
    /\ hmtxTable = <<>>
    /\ glyf0 = <<>>
    /\ opts = <<>>
    /\ skia = <<>>
    /\ todo = <<>>
    /\ done = <<>>
    /\ modified = {}
    /\ last = <<>>
    /\ pc = "idle"

\* The command variables of a specification that runs no command.
CliIdle ==
    /\ cmd = <<>>
    /\ files = <<>>
    /\ fonts = <<>>
    /\ loaded = FALSE
    /\ idx = 0
    /\ check = ""
    /\ out = <<>>
    /\ cpc = "idle"

InitName ==
    /\ names \in NameTables
    /\ names0 = names
    /\ call = NoCall
    /\ ttFont = <<>>
    /\ GlyfIdle
    /\ CliIdle

DelMacNames ==
    /\ call.op = "load"
    /\ \E exclude \in ExcludeSets :
        /\ names' = delMacNames(names, exclude)
        /\ call' = [NoCall EXCEPT !.op = "delMacNames", !.ignore = exclude]
    /\ names0' = names
    /\ UNCHANGED <<ttFont, glyfVars, cliVars>>

DelMacNamesCommand ==
    /\ call.op = "load"
    /\ \E del_all \in BOOLEAN :
        /\ names' = del_mac_names_table(names, del_all)
        /\ call' = [NoCall EXCEPT !.op = "del_mac_names", !.del_all = del_all]
    /\ names0' = names
    /\ UNCHANGED <<ttFont, glyfVars, cliVars>>

FindReplace ==
    /\ call.op = "load"
    /\ \E oldString \in OldStrings, newString \in NewStrings,
          nameID \in NameIDs \cup {None}, platform \in Platforms,
          ignore \in IgnoreSets :
        LET r == findReplace(names, oldString, newString, nameID, platform, ignore)
        IN  /\ names' = r.names
            /\ call' = [NoCall EXCEPT !.op = "findReplace",
                           !.oldString = oldString, !.newString = newString,
                           !.nameID = nameID, !.platform = platform,
                           !.ignore = ignore, !.fixCount = r.fixCount]
    /\ names0' = names
    /\ UNCHANGED <<ttFont, glyfVars, cliVars>>

NextName == DelMacNames \/ DelMacNamesCommand \/ FindReplace

SpecName == InitName /\ [][NextName]_vars

(***************************************************************************)
(* Claims about the name table                                             *)
(***************************************************************************)

\* The nameIDs the operation preserves among the Macintosh records.
PreservedMacIDs ==
    IF call.op = "delMacNames" THEN call.ignore
    ELSE IF call.del_all THEN {} ELSE MacNamesKept

DeletedMacNames == call.op \in {"delMacNames", "del_mac_names"}

\* C1: deleting Macintosh names leaves exactly the records that are not
\* platformID 1 or whose nameID is preserved, each with its string unchanged
\* and in the original order; the preserved set is {1, 2, 4, 5, 6} by default
\* and empty with --del-all or an empty exclude list.
C1_DelMacNamesExact ==
    DeletedMacNames =>
        names = SelectSeq(names0, LAMBDA r :
                    r.platformID # 1 \/ r.nameID \in PreservedMacIDs)

\* C1 witness: delMacNames with the default exclude list removed one
\* Macintosh record and kept another as well as a Windows record.
C1_Witness ==
    /\ call.op = "delMacNames"
    /\ call.ignore = MacNamesKept
    /\ \E i \in 1..Len(names0) :
          names0[i].platformID = 1 /\ ~InSeq(names0[i], names)
    /\ \E i \in 1..Len(names) : names[i].platformID = 1
    /\ \E i \in 1..Len(names) : names[i].platformID = 3

PlatformSelected(platform, platformID) ==
    \/ platform = NoPlatform
    \/ platform = "mac" /\ platformID = 1
    \/ platform = "win" /\ platformID = 3

\* C4: find-and-replace changes no record whose nameID is excluded, whatever
\* the included nameID and the platform, also when records share a
\* (platformID, nameID) pair.
C4_ExcludedUntouched ==
    call.op = "findReplace" =>
        /\ Len(names) = Len(names0)
        /\ \A i \in 1..Len(names0) :
              names0[i].nameID \in call.ignore => names[i] = names0[i]

\* C4 witness: an excluded nameID that is also the included one, carried by
\* two Windows records (two languages) that both contain the old string.
C4_Witness ==
    /\ call.op = "findReplace"
    /\ call.nameID # None
    /\ call.nameID \in call.ignore
    /\ \E i, j \in 1..Len(names0) :
          /\ i # j
          /\ names0[i].platformID = 3 /\ names0[j].platformID = 3
          /\ names0[i].nameID = call.nameID /\ names0[j].nameID = call.nameID
          /\ Contains(names0[i].string, call.oldString)
          /\ Contains(names0[j].string, call.oldString)
          /\ PlatformSelected(call.platform, 3)

MaxGlyphs == 3

GlyphNames == 1..MaxGlyphs

Unit == 2 ^ (MaxGlyphs - 1)

SetMin(S) == CHOOSE x \in S : \A y \in S : x <= y
SetMax(S) == CHOOSE x \in S : \A y \in S : x >= y

isComposite(glyph) == Len(glyph.components) > 0

numberOfContours(glyph) ==
    IF isComposite(glyph) THEN -1 ELSE Len(glyph.contours)

ContourSet(path) == { path[i] : i \in 1..Len(path) }

\* fontTools.misc.roundTools.otRound of c / Unit: floor(x + 0.5)
otRound(c) == (2 * c + Unit) \div (2 * Unit)

IsIntegral(path) ==
    \A i \in 1..Len(path) : path[i][1] % Unit = 0 /\ path[i][2] % Unit = 0

\* component.getComponentInfo() and path.transform(*transformation)
TransformPath(path, component) ==
    LET T(c) == (IF component.half THEN c \div 2 ELSE c) + component.dx * Unit
    IN  [i \in 1..Len(path) |-> <<T(path[i][1]), T(path[i][2])>>]

RECURSIVE skPathFromGlyph(_, _)
RECURSIVE ComponentPaths(_, _, _)

\* glyphSet[glyphName].draw(pathPen): a composite glyph draws its components,
\* each from the glyf table as it is now.
skPathFromGlyph(glyphName, glyf) ==
    LET glyph == glyf[glyphName]
    IN  IF isComposite(glyph) THEN ComponentPaths(glyph, 1, glyf)
        ELSE [i \in 1..Len(glyph.contours) |->
                <<glyph.contours[i][1] * Unit, glyph.contours[i][2] * Unit>>]

ComponentPaths(glyph, i, glyf) ==
    IF i > Len(glyph.components) THEN <<>>
    ELSE TransformPath(skPathFromGlyph(glyph.components[i].glyphName, glyf),
                       glyph.components[i])
         \o ComponentPaths(glyph, i + 1, glyf)

skPathFromGlyphComponent(component, glyf) ==
    TransformPath(skPathFromGlyph(component.glyphName, glyf), component)

\* pathops.op(a, b, INTERSECTION): non-empty when two contours share area.
PathsIntersect(a, b) ==
    \E i \in 1..Len(a), j \in 1..Len(b) :
        LET lo == IF a[i][1] > b[j][1] THEN a[i][1] ELSE b[j][1]
            hi == IF a[i][2] < b[j][2] THEN a[i][2] ELSE b[j][2]
        IN  lo < hi

\* Variant: every composite glyph counts as having overlapping components.
AlwaysOverlap(glyph, glyf) == TRUE

componentsOverlap(glyph, glyf) ==
    IF Len(glyph.components) < 2 THEN FALSE
    ELSE \E i, j \in 1..Len(glyph.components) :
            /\ i < j
            /\ PathsIntersect(skPathFromGlyphComponent(glyph.components[i], glyf),
                              skPathFromGlyphComponent(glyph.components[j], glyf))

RECURSIVE Grow(_, _)
\* The right end of the merged contour that reaches hi so far.
Grow(S, hi) ==
    LET reach == SetMax({hi} \cup { c[2] : c \in { d \in S : d[1] <= hi } })
    IN  IF reach = hi THEN hi ELSE Grow(S, reach)

RECURSIVE MergeContours(_)
MergeContours(S) ==
    IF S = {} THEN <<>>
    ELSE LET lo == SetMin({ c[1] : c \in S })
             hi == Grow(S, lo)
         IN  << <<lo, hi>> >> \o MergeContours({ c \in S : c[1] > hi })

\* pathops.simplify(path, clockwise=True) when it succeeds: the union of the
\* contours, without the empty ones, from left to right.
simplify(path) == MergeContours({ c \in ContourSet(path) : c[1] < c[2] })

_round_path(path) ==
    [i \in 1..Len(path) |->
        <<otRound(path[i][1]) * Unit, otRound(path[i][2]) * Unit>>]

\* ttPen.glyph() and glyph.recalcBounds: integer coordinates, no components,
\* an empty program, xMin the least x (0 for a glyph without points).
ttfGlyphFromSkPath(path) ==
    LET contours == [i \in 1..Len(path) |->
                        <<otRound(path[i][1]), otRound(path[i][2])>>]
    IN  [contours |-> contours, components |-> <<>>, program |-> FALSE,
         xMin |-> IF contours = <<>> THEN 0
                  ELSE SetMin({ contours[i][1] : i \in 1..Len(contours) })]

(***************************************************************************)
(* _simplify and removeTTGlyphOverlaps                                     *)
(***************************************************************************)

\* pathops.simplify raises PathOpsError on the paths of one glyph that have
\* fractional coordinates and, when skia.rounded, on its integer paths too.
SimplifyFails(path, glyphName) ==
    /\ skia.glyphName = glyphName
    /\ (~IsIntegral(path) \/ skia.rounded)

\* Variant: the path is rounded before the first attempt.
SimplifyRoundingFirst(path, debugGlyphName) ==
    [raised |-> "", path |-> simplify(_round_path(path)), log |-> <<"simplify">>]

\* The result: the exception that leaves _simplify ("" for a normal return), the
\* path returned, and what was done in order.
_simplify(path, debugGlyphName) ==
    IF ~SimplifyFails(path, debugGlyphName)
    THEN [raised |-> "", path |-> simplify(path), log |-> <<"simplify">>]
    ELSE LET rounded == _round_path(path)
         IN  IF ~SimplifyFails(rounded, debugGlyphName)
             THEN [raised |-> "", path |-> simplify(rounded),
                   log |-> <<"simplify", "PathOpsError", "_round_path",
                             "simplify", "warning">>]
             ELSE [raised |-> "AssertionError", path |-> <<>>,
                   log |-> <<"simplify", "PathOpsError", "_round_path",
                             "simplify", "PathOpsError", "error">>]

\* Variant: the program of a composite glyph is kept.
KeepHintingOfComposite(glyph) ==
    IF isComposite(glyph) THEN glyph ELSE [glyph EXCEPT !.program = FALSE]

\* glyph.removeHinting()
removeHinting(glyph) == [glyph EXCEPT !.program = FALSE]

\* Variant: the left side bearing is not updated.
KeepLsb(hmtx, glyphName, glyph) == hmtx

\* width, lsb = hmtxTable[glyphName]; the lsb becomes glyph.xMin
SetLsb(hmtx, glyphName, glyph) ==
    IF hmtx[glyphName].lsb # glyph.xMin
    THEN [hmtx EXCEPT ![glyphName] = [width |-> hmtx[glyphName].width,
                                      lsb |-> glyph.xMin]]
    ELSE hmtx

NoLast ==
    [glyphName |-> 0, result |-> "", simplified |-> FALSE, path |-> <<>>,
     path2 |-> <<>>, log |-> <<>>, hmtxBefore |-> <<>>, glyphBefore |-> <<>>]

\* The tables after the call, and what the call did (result "True", "False",
\* or the name of the exception that left it).
removeTTGlyphOverlaps(glyphName, glyf, hmtx, remove_hinting) ==
    LET glyph == glyf[glyphName]
        enter == \/ numberOfContours(glyph) > 0
                 \/ (isComposite(glyph) /\ componentsOverlap(glyph, glyf))
        path  == skPathFromGlyph(glyphName, glyf)
        s     == _simplify(path, glyphName)
        info  == [NoLast EXCEPT !.glyphName = glyphName, !.hmtxBefore = hmtx,
                                !.glyphBefore = glyph]
        seen  == [info EXCEPT !.simplified = TRUE, !.path = path,
                              !.path2 = s.path, !.log = s.log]
        new   == ttfGlyphFromSkPath(s.path)
        plain == IF remove_hinting
                 THEN [glyf EXCEPT ![glyphName] = removeHinting(glyph)]
                 ELSE glyf
    IN  IF enter /\ s.raised # ""
        THEN [glyf |-> glyf, hmtx |-> hmtx,
              last |-> [seen EXCEPT !.result = s.raised]]
        ELSE IF enter /\ ContourSet(path) # ContourSet(s.path)
        THEN [glyf |-> [glyf EXCEPT ![glyphName] = new],
              hmtx |-> SetLsb(hmtx, glyphName, new),
              last |-> [seen EXCEPT !.result = "True"]]
        ELSE [glyf |-> plain, hmtx |-> hmtx,
              last |-> [(IF enter THEN seen ELSE info) EXCEPT !.result = "False"]]

(***************************************************************************)
(* fix_true_type_contours                                                  *)
(***************************************************************************)

RECURSIVE CompositeDepth(_, _, _)
\* glyph.getCompositeMaxpValues(glyf).maxComponentDepth
CompositeDepth(glyf, glyphName, maxComponentDepth) ==
    LET glyph == glyf[glyphName]
        bases == { glyph.components[i].glyphName : i \in 1..Len(glyph.components) }
    IN  SetMax({maxComponentDepth} \cup
               { CompositeDepth(glyf, b, maxComponentDepth + 1) :
                   b \in { c \in bases : numberOfContours(glyf[c]) < 0 } })

ComponentDepth(glyf, name) ==
    IF isComposite(glyf[name]) THEN CompositeDepth(glyf, name, 1) ELSE 0

\* Variant: the glyph names are sorted by name alone.
NameOnlyLess(glyf, a, b) == a < b

\* The sort key (component depth, name).
GlyphSortLess(glyf, a, b) ==
    \/ ComponentDepth(glyf, a) < ComponentDepth(glyf, b)
    \/ (ComponentDepth(glyf, a) = ComponentDepth(glyf, b) /\ a < b)

RECURSIVE SortGlyphs(_, _)
\* sorted(glyphNames, key=...), for a list without repeated names.
SortGlyphs(S, glyf) ==
    IF S = {} THEN <<>>
    ELSE LET first == CHOOSE a \in S :
                         \A b \in S \ {a} : GlyphSortLess(glyf, a, b)
         IN  <<first>> \o SortGlyphs(S \ {first}, glyf)

\* font.getGlyphOrder()
getGlyphOrder == [i \in 1..MaxGlyphs |-> i]

SimpleGlyph(contours) ==
    [contours |-> contours, components |-> <<>>, program |-> TRUE,
     xMin |-> IF contours = <<>> THEN 0
              ELSE SetMin({ contours[i][1] : i \in 1..Len(contours) })]

CompositeGlyph(components) ==
    [contours |-> <<>>, components |-> components, program |-> TRUE, xMin |-> 0]

Component(glyphName, half, dx) ==
    [glyphName |-> glyphName, half |-> half, dx |-> dx]

\* Two overlapping contours; two separate contours, right one first; no contour.
SimpleGlyphs ==
    { SimpleGlyph(<< <<1, 3>>, <<2, 5>> >>),
      SimpleGlyph(<< <<4, 6>>, <<0, 2>> >>),
      SimpleGlyph(<<>>) }

\* One component; a component and a shifted copy that overlaps it; a copy far
\* away; a copy at half the size.
CompositeGlyphs(base) ==
    { CompositeGlyph(<<Component(base, FALSE, 0)>>),
      CompositeGlyph(<<Component(base, FALSE, 0), Component(base, FALSE, 1)>>),
      CompositeGlyph(<<Component(base, FALSE, 0), Component(base, FALSE, 8)>>),
      CompositeGlyph(<<Component(base, FALSE, 0), Component(base, TRUE, 0)>>) }

\* A composite glyph is built on the glyph with the next name, so that the
\* component depth decreases along the glyph order.
GlyphChoices(glyphName) ==
    SimpleGlyphs \cup
    (IF glyphName < MaxGlyphs THEN CompositeGlyphs(glyphName + 1) ELSE {})

Fonts ==
    { f \in [GlyphNames -> UNION { GlyphChoices(g) : g \in GlyphNames }] :
        \A g \in GlyphNames : f[g] \in GlyphChoices(g) }

\* The glyph order without its first or without its last glyph.
GlyphNameLists ==
    { [i \in 1..(MaxGlyphs - 1) |-> IF i < d THEN i ELSE i + 1] :
        d \in {1, MaxGlyphs} }

\* The glyphs whose paths skia-pathops may fail on.
FailingGlyphs == {1, 2}

Options ==
    [allGlyphs : {TRUE}, glyphNames : {<<>>},
     removeHinting : BOOLEAN, ignoreErrors : BOOLEAN]
    \cup
    [allGlyphs : {FALSE}, glyphNames : GlyphNameLists,
     removeHinting : BOOLEAN, ignoreErrors : BOOLEAN]

\* The names to process: glyphNames, or the glyph order when it is None.
RequestedNames ==
    LET glyphNames == IF opts.allGlyphs THEN getGlyphOrder ELSE opts.glyphNames
    IN  { glyphNames[i] : i \in 1..Len(glyphNames) }

NameIdle ==
    /\ names = <<>>
    /\ names0 = <<>>
    /\ call = NoCall
    /\ ttFont = <<>>

InitGlyf ==
    /\ glyfTable \in Fonts
    /\ glyf0 = glyfTable
    /\ hmtxTable = [g \in GlyphNames |-> [width |-> 10 * g, lsb |-> g % 2]]
    /\ opts \in Options
    /\ skia \in {[glyphName |-> 0, rounded |-> FALSE]}
                \cup [glyphName : FailingGlyphs, rounded : BOOLEAN]
    /\ todo = <<>>
    /\ done = <<>>
    /\ modified = {}
    /\ last = NoLast
    /\ pc = "start"
    /\ NameIdle
    /\ CliIdle

\* fix_true_type_contours up to the loop: the glyph names sorted.
SortGlyphNames ==
    /\ pc = "start"
    /\ todo' = SortGlyphs(RequestedNames, glyfTable)
    /\ pc' = IF todo' = <<>> THEN "done" ELSE "loop"
    /\ UNCHANGED <<glyfTable, hmtxTable, glyf0, opts, skia, done, modified, last>>
    /\ UNCHANGED <<nameVars, cliVars>>

\* One turn of the loop: removeTTGlyphOverlaps on the next glyph name.
ProcessGlyph ==
    /\ pc = "loop"
    /\ LET glyphName == Head(todo)
           r == removeTTGlyphOverlaps(glyphName, glyfTable, hmtxTable,
                                      opts.removeHinting)
           caught == r.last.result = "RemoveOverlapsError" /\ opts.ignoreErrors
           raised == r.last.result \notin {"True", "False"} /\ ~caught
       IN  /\ glyfTable' = r.glyf
           /\ hmtxTable' = r.hmtx
           /\ done' = Append(done, glyphName)
           /\ modified' = IF r.last.result = "True"
                          THEN modified \cup {glyphName} ELSE modified
           /\ last' = IF caught
                      THEN [r.last EXCEPT !.log = Append(@, "error")]
                      ELSE r.last
           /\ todo' = IF raised THEN todo ELSE Tail(todo)
           /\ pc' = IF raised THEN "raised"
                    ELSE IF Tail(todo) = <<>> THEN "done" ELSE "loop"
    /\ UNCHANGED <<glyf0, opts, skia>>
    /\ UNCHANGED <<nameVars, cliVars>>

NextGlyf == SortGlyphNames \/ ProcessGlyph

SpecGlyf == InitGlyf /\ [][NextGlyf]_vars

(***************************************************************************)
(* Claims about the overlap removal                                        *)
(***************************************************************************)

BaseGlyphs(glyph) ==
    { glyph.components[i].glyphName : i \in 1..Len(glyph.components) }

ProcessedBefore(glyphName, k) == \E j \in 1..(k - 1) : done[j] = glyphName

\* The glyphs are taken by non-decreasing component depth, and by name among
\* glyphs of the same depth.
InSortedOrder ==
    LET order == done \o (IF pc = "raised" THEN Tail(todo) ELSE todo)
        depth(k) == ComponentDepth(glyf0, order[k])
    IN  \A i, j \in 1..Len(order) :
            i < j => /\ depth(i) <= depth(j)
                     /\ depth(i) = depth(j) => order[i] < order[j]

C3_LsbIsXMin ==
    (pc # "start" /\ last.result = "True") =>
        LET g == last.glyphName
            glyph == glyfTable[g]
        IN  /\ glyph.xMin = (IF glyph.contours = <<>> THEN 0
                             ELSE SetMin({ glyph.contours[i][1] :
                                            i \in 1..Len(glyph.contours) }))
            /\ hmtxTable[g].lsb = glyph.xMin
            /\ hmtxTable[g].width = last.hmtxBefore[g].width
            /\ \A o \in GlyphNames \ {g} : hmtxTable[o] = last.hmtxBefore[o]

\* C3 witness: a replaced glyph whose left side bearing had to change.
C3_Witness ==
    /\ pc # "start"
    /\ last.result = "True"
    /\ last.hmtxBefore[last.glyphName].lsb # glyfTable[last.glyphName].xMin
    /\ hmtxTable[last.glyphName].lsb = glyfTable[last.glyphName].xMin

Count(seq, x) == Cardinality({ i \in 1..Len(seq) : seq[i] = x })

\* C6: _simplify first simplifies the path as it is and returns that result
\* with no rounding and no warning; only when that fails it rounds the path
\* and simplifies once more; the warning is given exactly when the first
\* attempt failed and the second succeeded.
C6_SimplifyRetry ==
    (pc # "start" /\ last.simplified) =>
        LET first  == SimplifyFails(last.path, last.glyphName)
            second == SimplifyFails(_round_path(last.path), last.glyphName)
        IN  /\ last.log[1] = "simplify"
            /\ ~first => /\ last.log = <<"simplify">>
                         /\ last.path2 = simplify(last.path)
                         /\ last.result \in {"True", "False"}
            /\ first => /\ Count(last.log, "_round_path") = 1
                        /\ Count(last.log, "simplify") = 2
                        /\ last.log[3] = "_round_path"
            /\ (first /\ ~second) => last.path2 = simplify(_round_path(last.path))
            /\ (Count(last.log, "warning") = 1) <=> (first /\ ~second)
            /\ Count(last.log, "warning") <= 1

\* C6 witness: the first attempt failed on fractional coordinates and the
\* attempt on the rounded path succeeded, with a different path.
C6_Witness ==
    /\ pc # "start"
    /\ last.simplified
    /\ SimplifyFails(last.path, last.glyphName)
    /\ last.result \in {"True", "False"}
    /\ Count(last.log, "warning") = 1
    /\ _round_path(last.path) # last.path

\* C7: after a normal return of removeTTGlyphOverlaps with removeHinting
\* True the glyph stored under the name has no program, replaced or not.
C7_NoHinting ==
    (pc # "start" /\ last.result \in {"True", "False"} /\ opts.removeHinting) =>
        ~glyfTable[last.glyphName].program

\* C7 witness: two hinted glyphs processed with removeHinting True, one
\* replaced and one (a composite) left in place, both without program.
C7_Witness ==
    /\ pc = "done"
    /\ opts.removeHinting
    /\ \E g, h \in GlyphNames :
          /\ g \in modified /\ glyf0[g].program /\ ~glyfTable[g].program
          /\ InSeq(h, done) /\ h \notin modified /\ isComposite(glyfTable[h])
          /\ glyf0[h].program /\ ~glyfTable[h].program

\* Both simplify attempts failed on the glyph processed last.
BothAttemptsFailed ==
    /\ pc # "start"
    /\ last.simplified
    /\ SimplifyFails(last.path, last.glyphName)
    /\ SimplifyFails(_round_path(last.path), last.glyphName)

\* C11 as stated: when both simplify attempts fail on a glyph, then with
\* ignoreErrors True an error is reported and fix_true_type_contours goes on
\* with the remaining glyphs, and with ignoreErrors False the failure leaves
\* fix_true_type_contours as RemoveOverlapsError.
C11_FailureIgnoredOrRaised ==
    BothAttemptsFailed =>
        IF opts.ignoreErrors
        THEN /\ pc # "raised"
             /\ Count(last.log, "error") >= 1
        ELSE /\ pc = "raised"
             /\ last.result = "RemoveOverlapsError"

\* C12 as stated: raise AssertionError("Unreachable") at the end of _simplify
\* is never reached, whatever the two simplify attempts do.
C12_UnreachableNotReached ==
    pc # "start" => last.result # "AssertionError"

\* The replacement test of the claim, on the tables: no two components of
\* the composite glyph share area.
NoComponentsIntersect(glyph, glyf) ==
    \A i, j \in 1..Len(glyph.components) :
        i < j =>
            ~PathsIntersect(skPathFromGlyphComponent(glyph.components[i], glyf),
                            skPathFromGlyphComponent(glyph.components[j], glyf))

\* The glyf entry of the glyph processed last is a new glyph.
Replaced ==
    glyfTable[last.glyphName] \notin
        {last.glyphBefore, removeHinting(last.glyphBefore)}

\* C13: a composite glyph with fewer than two components, or whose components
\* do not intersect pairwise, is not replaced: its components stay, hmtx is
\* untouched and the result is False.  The result is True exactly when the
\* glyf entry was replaced, and that is exactly when a simplified path was
\* computed whose set of contours differs from that of the original path.
C13_ReplacedIffContoursDiffer ==
    (pc # "start" /\ last.result \in {"True", "False"}) =>
        LET g == last.glyphName
            before == last.glyphBefore
        IN  /\ (last.result = "True") <=> Replaced
            /\ Replaced <=> /\ last.simplified
                            /\ ContourSet(last.path) # ContourSet(last.path2)
            /\ (g \in modified) <=> (last.result = "True")
            /\ (isComposite(before) /\ NoComponentsIntersect(before, glyfTable)) =>
                  /\ ~Replaced
                  /\ glyfTable[g].components = before.components
                  /\ hmtxTable = last.hmtxBefore
                  /\ last.result = "False"

\* C13 witness: a composite glyph of two components that do not intersect was
\* left in place after a composite glyph with intersecting components had
\* been replaced by a simple glyph.
C13_Witness ==
    /\ pc # "start"
    /\ last.result = "False"
    /\ Len(last.glyphBefore.components) = 2
    /\ NoComponentsIntersect(last.glyphBefore, glyfTable)
    /\ isComposite(glyfTable[last.glyphName])
    /\ hmtxTable = last.hmtxBefore
    /\ \E h \in modified :
          /\ isComposite(glyf0[h])
          /\ ~isComposite(glyfTable[h])

(***************************************************************************)
(* The name commands of ftcli_name.py: set_name, del_names, find_replace,  *)
(* del_mac_names, append.  A font is a record                              *)
(*   [names, names0, saves, output, closed]:                               *)
(* its name table now and as loaded, how often font.save completed, what   *)
(* it wrote last, and how often font.close was called.                     *)
(***************************************************************************)

MaxFonts == 2

\* Python's None, where a string option (prefix, suffix) is expected.
NoneStr == <<"None">>

NameRecord(nameID, platformKey, string) ==
    [nameID |-> nameID, platformID |-> platformKey[1],
     platEncID |-> platformKey[2], langID |-> platformKey[3], string |-> string]

RECURSIVE SortRecords(_)
SortRecords(S) ==
    IF S = {} THEN <<>>
    ELSE LET first == CHOOSE a \in S : \A b \in S \ {a} : KeyLess(a, b)
         IN  <<first>> \o SortRecords(S \ {first})

\* name_table.compile(font): the records are written in sorted order (tables
\* without two records of the same key).
compile(ns) == SortRecords({ ns[i] : i \in 1..Len(ns) })

Reverse(seq) == [i \in 1..Len(seq) |-> seq[Len(seq) + 1 - i]]

\* What a table operation of TableName (add_name, del_names, find_replace,
\* append_string) may leave: the same list, the same records in another order,
\* a list without its first record, a changed string, one more record.
TableOutcomes(ns) ==
    {ns, Reverse(ns), Append(ns, NameRecord(16, <<3, 1, 1033>>, <<"c">>))}
    \cup (IF ns = <<>> THEN {}
          ELSE {Tail(ns), [ns EXCEPT ![1].string = <<"c">>]})

\* The tables the command's operation may leave in the font.
CommandOutcomes(command, ns) ==
    IF command.command = "del_mac_names"
    THEN {del_mac_names_table(ns, command.del_all)}
    ELSE TableOutcomes(ns)

\* The results initial_check_pass(fonts, output_dir) may give.
initial_check_pass(loaded_fonts) == BOOLEAN

\* Variant: 'or' in place of 'and'.
AppendRefusedIfEitherMissing(prefix, suffix) == prefix = NoneStr \/ suffix = NoneStr

\* if prefix is None and suffix is None
AppendRefused(prefix, suffix) == prefix = NoneStr /\ suffix = NoneStr

\* Variant: the lists are compared, not the compiled tables.
SaveIfListsDiffer(name_table_copy, name_table) == name_table_copy # name_table

\* if name_table_copy.compile(font) != name_table.compile(font)
ShouldSave(name_table_copy, name_table) ==
    compile(name_table_copy) # compile(name_table)

\* Variant: no finally clause, the font is closed at the end of the try block.
FontBodyWithoutFinally(font, k, table, raises) ==
    IF raises = "operation"
    THEN [font |-> font, message |-> <<"error", k>>]
    ELSE IF ShouldSave(font.names, table)
    THEN [font |-> [font EXCEPT !.names = table, !.saves = @ + 1,
                                !.output = compile(table), !.closed = @ + 1],
          message |-> <<"saved", k>>]
    ELSE [font |-> [font EXCEPT !.names = table, !.closed = @ + 1],
          message |-> <<"not changed", k>>]

\* The body of the for loop for the k-th font: try, except Exception, finally.
\* table is what the operation leaves; raises says where an exception is
\* raised: in the operation, in font.save, or nowhere ("").
FontBody(font, k, table, raises) ==
    IF raises = "operation"
    THEN [font |-> [font EXCEPT !.closed = @ + 1], message |-> <<"error", k>>]
    ELSE IF ShouldSave(font.names, table)
    THEN IF raises = "save"
         THEN [font |-> [font EXCEPT !.names = table, !.closed = @ + 1],
               message |-> <<"error", k>>]
         ELSE [font |-> [font EXCEPT !.names = table, !.saves = @ + 1,
                                     !.output = compile(table), !.closed = @ + 1],
               message |-> <<"saved", k>>]
    ELSE [font |-> [font EXCEPT !.names = table, !.closed = @ + 1],
          message |-> <<"not changed", k>>]

CliTables ==
    { <<>>,
      <<NameRecord(3, <<1, 0, 0>>, <<"b">>)>>,
      <<NameRecord(1, <<1, 0, 0>>, <<"a", "b">>),
        NameRecord(1, <<3, 1, 1033>>, <<"b">>)>> }

Commands ==
    [command : {"set_name", "del_names", "find_replace"},
     prefix : {NoneStr}, suffix : {NoneStr}, del_all : {FALSE}]
    \cup
    [command : {"del_mac_names"},
     prefix : {NoneStr}, suffix : {NoneStr}, del_all : BOOLEAN]
    \cup
    [command : {"append"},
     prefix : {NoneStr, <<>>, <<"c">>}, suffix : {NoneStr, <<"c">>}, del_all : {FALSE}]

InitCLI ==
    /\ cmd \in Commands
    /\ files \in UNION { [1..n -> CliTables] : n \in 0..MaxFonts }
    /\ fonts = <<>>
    /\ loaded = FALSE
    /\ idx = 0
    /\ check = ""
    /\ out = <<>>
    /\ cpc = "called"
    /\ NameIdle
    /\ GlyfIdle

Refused == cmd.command = "append" /\ AppendRefused(cmd.prefix, cmd.suffix)

\* append without prefix and suffix: the error message, then return.
RefuseAppend ==
    /\ cpc = "called"
    /\ Refused
    /\ out' = Append(out, <<"error", 0>>)
    /\ cpc' = "returned"
    /\ UNCHANGED <<cmd, files, fonts, loaded, idx, check>>
    /\ UNCHANGED <<nameVars, glyfVars>>

\* get_fonts_in_path, get_output_dir, initial_check_pass.
LoadFonts ==
    /\ cpc = "called"
    /\ ~Refused
    /\ fonts' = [k \in 1..Len(files) |->
                    [names |-> files[k], names0 |-> files[k], saves |-> 0,
                     output |-> <<>>, closed |-> 0]]
    /\ loaded' = TRUE
    /\ \E pass \in initial_check_pass(fonts') :
        /\ check' = IF pass THEN "pass" ELSE "fail"
        /\ cpc' = IF pass /\ fonts' # <<>> THEN "loop" ELSE "returned"
    /\ idx' = 1
    /\ UNCHANGED <<cmd, files, out>>
    /\ UNCHANGED <<nameVars, glyfVars>>

\* One turn of the for loop.
ProcessFont ==
    /\ cpc = "loop"
    /\ \E table \in CommandOutcomes(cmd, fonts[idx].names),
          raises \in {"", "operation", "save"} :
        LET r == FontBody(fonts[idx], idx, table, raises)
        IN  /\ fonts' = [fonts EXCEPT ![idx] = r.font]
            /\ out' = Append(out, r.message)
    /\ idx' = idx + 1
    /\ cpc' = IF idx = Len(fonts) THEN "returned" ELSE "loop"
    /\ UNCHANGED <<cmd, files, loaded, check>>
    /\ UNCHANGED <<nameVars, glyfVars>>

NextCLI == RefuseAppend \/ LoadFonts \/ ProcessFont

SpecCLI == InitCLI /\ [][NextCLI]_vars

(***************************************************************************)
(* Claims about the name commands                                          *)
(***************************************************************************)

\* The messages printed for the k-th font.
MessagesOf(k) == { i \in 1..Len(out) : out[i][2] = k }

Said(k, what) == \E i \in MessagesOf(k) : out[i][1] = what

\* C8: append with neither --prefix nor --suffix prints an error and returns
\* before any font is loaded, modified, saved or closed; with at least one of
\* them it goes on to load the fonts.
C8_AppendNeedsPrefixOrSuffix ==
    (cpc \notin {"idle", "called"} /\ cmd.command = "append") =>
        IF cmd.prefix = NoneStr /\ cmd.suffix = NoneStr
        THEN /\ cpc = "returned"
             /\ ~loaded
             /\ fonts = <<>>
             /\ out = << <<"error", 0>> >>
        ELSE /\ loaded
             /\ Len(fonts) = Len(files)
             /\ ~Said(0, "error")

\* C8 witness: append without prefix and suffix has returned while font
\* files were there to load.
C8_Witness ==
    /\ cpc = "returned"
    /\ cmd.command = "append"
    /\ cmd.prefix = NoneStr /\ cmd.suffix = NoneStr
    /\ files # <<>>
    /\ out = << <<"error", 0>> >>

\* C9: a font processed without an exception is saved, with the 'saved'
\* message, exactly when the compiled name table differs from the compiled
\* copy taken before the operation; otherwise only 'not changed' is printed
\* and nothing is written.
C9_SavedIffChanged ==
    cpc \in {"loop", "returned"} =>
        \A k \in 1..Len(fonts) :
            (MessagesOf(k) # {} /\ ~Said(k, "error")) =>
                LET changed == compile(fonts[k].names0) # compile(fonts[k].names)
                IN  /\ Cardinality(MessagesOf(k)) = 1
                    /\ changed <=> fonts[k].saves = 1
                    /\ changed <=> Said(k, "saved")
                    /\ ~changed <=> Said(k, "not changed")
                    /\ changed => fonts[k].output = compile(fonts[k].names)
                    /\ ~changed => fonts[k].saves = 0 /\ fonts[k].output = <<>>

\* C9 witness: one font saved, and one left alone although the operation
\* reordered its records.
C9_Witness ==
    /\ cpc = "returned"
    /\ \E j, k \in 1..Len(fonts) :
          /\ Said(j, "saved") /\ fonts[j].saves = 1
          /\ Said(k, "not changed") /\ fonts[k].saves = 0
          /\ fonts[k].names # fonts[k].names0

\* A font whose processing raised: the error is printed, it is not saved.
FailedFontsNotSaved ==
    \A k \in 1..Len(fonts) : Said(k, "error") => fonts[k].saves = 0

\* Each font of the loop got one message and one close.
AllProcessedAndClosed ==
    \A k \in 1..Len(fonts) :
        Cardinality(MessagesOf(k)) = 1 /\ fonts[k].closed = 1

NothingModifiedOrSaved ==
    \A k \in 1..Len(fonts) :
        fonts[k].names = fonts[k].names0 /\ fonts[k].saves = 0

\* C10 as stated: a failing font is reported and not saved and the loop goes
\* on; every font get_fonts_in_path returned is closed exactly once; if
\* initial_check_pass fails no font is modified or saved.
C10_EveryFontClosedOnce ==
    /\ cpc \in {"loop", "returned"} => FailedFontsNotSaved
    /\ (cpc = "returned" /\ loaded) => AllProcessedAndClosed
    /\ check = "fail" => NothingModifiedOrSaved

\* C10 amended: a failing font is reported and not saved and the loop goes
\* on; when initial_check_pass passes every font get_fonts_in_path returned
\* is closed exactly once; when it fails no font is modified, saved or closed.
C10_ClosedOnceWhenCheckPasses ==
    /\ cpc \in {"loop", "returned"} =>
          /\ FailedFontsNotSaved
          /\ \A k \in 1..Len(fonts) : fonts[k].closed <= 1
    /\ (cpc = "returned" /\ check = "pass") => AllProcessedAndClosed
    /\ check = "fail" =>
          /\ cpc = "returned"
          /\ NothingModifiedOrSaved
          /\ \A k \in 1..Len(fonts) : fonts[k].closed = 0

\* C10 witness: the first font failed, the next one was saved, both closed.
C10_Witness ==
    /\ cpc = "returned"
    /\ check = "pass"
    /\ Len(fonts) >= 2
    /\ Said(1, "error") /\ fonts[1].saves = 0 /\ fonts[1].closed = 1
    /\ Said(2, "saved") /\ fonts[2].saves = 1 /\ fonts[2].closed = 1

(***************************************************************************)
(* TTFontCLI.setMultilingualName and delMultilingualName.  ttFont is a     *)
(* record whose field ltag is the list of tags of the 'ltag' table.        *)
(***************************************************************************)

\* language.lower(), on the language strings used here
Lower(language) ==
    CASE language = "EN"  -> "en"
      [] language = "ALL" -> "all"
      [] OTHER            -> language

\* fontTools _WINDOWS_LANGUAGE_CODES.get(code): en is 0x409, it is 0x410
_WINDOWS_LANGUAGE_CODES(code) ==
    CASE code = "en" -> 1033
      [] code = "it" -> 1040
      [] OTHER       -> None

\* fontTools _MAC_LANGUAGE_CODES.get(code)
_MAC_LANGUAGE_CODES(code) ==
    CASE code = "en" -> 0
      [] code = "it" -> 3
      [] OTHER       -> None

\* fontTools _MAC_LANGUAGE_TO_SCRIPT.get(macLang): English and Italian are
\* in the Roman script (0)
_MAC_LANGUAGE_TO_SCRIPT(macLang) == IF macLang \in {0, 3} THEN 0 ELSE None

\* fontTools makeName
makeName(string, nameID, platformID, platEncID, langID) ==
    [nameID |-> nameID, platformID |-> platformID, platEncID |-> platEncID,
     langID |-> langID, string |-> string]

\* The index of x in seq, 0 if it is not there.
IndexOf(seq, x) ==
    LET hits == { i \in 1..Len(seq) : seq[i] = x }
    IN  IF hits = {} THEN 0 ELSE CHOOSE i \in hits : \A j \in hits : i <= j

\* fontTools table__n_a_m_e.addMultilingualName(names={language: string},
\* ttFont, windows, mac, nameID) for a given nameID and a string that the
\* Macintosh encoding can hold: a Windows record if the language has a
\* Windows code; a Macintosh record if asked for, or if there is no Windows
\* code; where the language has no Macintosh code the record is a Unicode
\* one (platform 0, encoding 4) whose language is the index of the tag in
\* the 'ltag' table.
addMultilingualName(ns, ltag, language, string, windows, mac, nameID) ==
    LET langID    == _WINDOWS_LANGUAGE_CODES(Lower(language))
        macLang   == _MAC_LANGUAGE_CODES(Lower(language))
        macScript == _MAC_LANGUAGE_TO_SCRIPT(macLang)
        ns1  == IF windows /\ langID # None
                THEN Append(ns, makeName(string, nameID, 3, 1, langID))
                ELSE ns
        mac1 == mac \/ (windows /\ langID = None)
        tags == IF IndexOf(ltag, language) = 0 THEN Append(ltag, language)
                ELSE ltag
    IN  IF ~mac1 THEN [names |-> ns1, ltag |-> ltag]
        ELSE IF macLang # None /\ macScript # None
        THEN [names |-> Append(ns1, makeName(string, nameID, 1, macScript, macLang)),
              ltag |-> ltag]
        ELSE [names |-> Append(ns1, makeName(string, nameID, 0, 4,
                                             IndexOf(tags, language) - 1)),
              ltag |-> tags]

RECURSIVE DelAllLanguages(_, _, _, _)
\* The loop of language 'ALL': it walks the list that was current when it
\* started; removeNames rebinds the table's list each time.
DelAllLanguages(orig, cur, i, nameID) ==
    IF i > Len(orig) THEN cur
    ELSE LET name == orig[i]
         IN  IF name.nameID = nameID
             THEN DelAllLanguages(orig,
                                  removeNames(cur, name.nameID, name.platformID,
                                              name.platEncID, name.langID),
                                  i + 1, nameID)
             ELSE DelAllLanguages(orig, cur, i + 1, nameID)

delMultilingualName(ns, nameID, language, windows, mac) ==
    IF nameID = None THEN ns
    ELSE LET all == language = "ALL"
             ns1 == IF all THEN DelAllLanguages(ns, ns, 1, nameID) ELSE ns
             ns2 == IF windows /\ ~all
                    THEN removeNames(ns1, nameID, 3, 1,
                                     _WINDOWS_LANGUAGE_CODES(Lower(language)))
                    ELSE ns1
             macLang   == _MAC_LANGUAGE_CODES(Lower(language))
             macScript == _MAC_LANGUAGE_TO_SCRIPT(macLang)
         IN  IF mac /\ ~all
             THEN removeNames(ns2, nameID, 1, macScript, macLang)
             ELSE ns2

\* The names list and the ltag tags after setMultilingualName.
setMultilingualName(ns, ltag, nameID, language, string, windows, mac) ==
    LET ns1 == IF windows
               THEN delMultilingualName(ns, nameID, language, TRUE, FALSE)
               ELSE ns
        ns2 == IF mac
               THEN delMultilingualName(ns1, nameID, language, FALSE, TRUE)
               ELSE ns1
    IN  addMultilingualName(ns2, ltag, language, string, windows, mac, nameID)

Languages == {"en", "EN", "it", "xx", "ALL"}

LangNameIDs == {2, 16}

\* Macintosh Roman English and Italian, Windows Unicode English and Italian,
\* Windows Symbol English.
LangKeys ==
    {<<1, 0, 0>>, <<1, 0, 3>>, <<3, 1, 1033>>, <<3, 1, 1040>>, <<3, 0, 1033>>}

LangRecords ==
    { makeName(<<"b">>, n, k[1], k[2], k[3]) : n \in LangNameIDs, k \in LangKeys }

\* The name table of a font file: sorted, no two records with the same key.
LangTables ==
    UNION { { t \in [1..k -> LangRecords] :
                \A i \in 1..(k - 1) : KeyLess(t[i], t[i + 1]) }
            : k \in 0..MaxNames }

InitLang ==
    /\ names \in LangTables
    /\ names0 = names
    /\ call = [op |-> "load"]
    /\ ttFont = [ltag |-> <<>>]
    /\ GlyfIdle
    /\ CliIdle

DelMultilingualName ==
    /\ call.op = "load"
    /\ \E nameID \in LangNameIDs \cup {None}, language \in Languages,
          windows \in BOOLEAN, mac \in BOOLEAN :
        /\ names' = delMultilingualName(names, nameID, language, windows, mac)
        /\ call' = [op |-> "delMultilingualName", nameID |-> nameID,
                    language |-> language, windows |-> windows, mac |-> mac]
    /\ names0' = names
    /\ UNCHANGED <<ttFont, glyfVars, cliVars>>

\* setMultilingualName with a nameID given.
SetMultilingualName ==
    /\ call.op = "load"
    /\ \E nameID \in LangNameIDs, language \in Languages \ {"ALL"},
          windows \in BOOLEAN, mac \in BOOLEAN :
        LET r == setMultilingualName(names, ttFont.ltag, nameID, language,
                                     <<"c">>, windows, mac)
        IN  /\ names' = r.names
            /\ ttFont' = [ttFont EXCEPT !.ltag = r.ltag]
            /\ call' = [op |-> "setMultilingualName", nameID |-> nameID,
                        language |-> language, windows |-> windows, mac |-> mac]
    /\ names0' = names
    /\ UNCHANGED <<glyfVars, cliVars>>

NextLang == DelMultilingualName \/ SetMultilingualName

SpecLang == InitLang /\ [][NextLang]_vars

(***************************************************************************)
(* Claims about delMultilingualName                                        *)
(***************************************************************************)

\* The record is one that delMultilingualName(nameID, language, windows, mac)
\* is to remove: it has the nameID and is in the language on a selected
\* platform.
InLanguage(r, nameID, language, windows, mac) ==
    /\ nameID # None
    /\ r.nameID = nameID
    /\ \/ /\ windows
          /\ r.platformID = 3
          /\ r.platEncID = 1
          /\ r.langID = _WINDOWS_LANGUAGE_CODES(Lower(language))
       \/ /\ mac
          /\ r.platformID = 1
          /\ r.platEncID = _MAC_LANGUAGE_TO_SCRIPT(_MAC_LANGUAGE_CODES(Lower(language)))
          /\ r.langID = _MAC_LANGUAGE_CODES(Lower(language))

\* C17 as stated: delMultilingualName with a language other than 'ALL'
\* removes the records of the nameID in that language on the selected
\* platforms and leaves every other record, in its place, whatever the
\* language string is; with nameID None it removes nothing.
C17_OnlyLanguageRemoved ==
    (call.op = "delMultilingualName" /\ call.language # "ALL") =>
        names = SelectSeq(names0, LAMBDA r :
                    ~InLanguage(r, call.nameID, call.language,
                                call.windows, call.mac))

\* The same for the languages that have a code on the selected platforms.
KnownLanguageRemoved ==
    ( /\ call.op = "delMultilingualName"
      /\ call.language # "ALL"
      /\ call.windows => _WINDOWS_LANGUAGE_CODES(Lower(call.language)) # None
      /\ call.mac => _MAC_LANGUAGE_CODES(Lower(call.language)) # None ) =>
        names = SelectSeq(names0, LAMBDA r :
                    ~InLanguage(r, call.nameID, call.language,
                                call.windows, call.mac))

(***************************************************************************)
(* TTFontCLI.recalcNames.  ttFont is a record of the fields of OS/2        *)
(* (fsSelection, version, usWeightClass, usWidthClass, achVendID), head    *)
(* (macStyle, fontRevision in thousandths, created as timestampToString    *)
(* prints it) and of the 'CFF ' table (hasCFF, cff), with the ltag tags.   *)
(***************************************************************************)

is_nth_bit_set(x, n) == (x \div (2 ^ n)) % 2 = 1

set_nth_bit(x, n) == IF is_nth_bit_set(x, n) THEN x ELSE x + 2 ^ n

unset_nth_bit(x, n) == IF is_nth_bit_set(x, n) THEN x - 2 ^ n ELSE x

isBold(f) == is_nth_bit_set(f.macStyle, 0) /\ is_nth_bit_set(f.fsSelection, 5)

isItalic(f) == is_nth_bit_set(f.macStyle, 1) /\ is_nth_bit_set(f.fsSelection, 0)

isOblique(f) == is_nth_bit_set(f.fsSelection, 9)

setBoldBits(f) ==
    [f EXCEPT !.fsSelection = set_nth_bit(@, 5), !.macStyle = set_nth_bit(@, 0)]

setItalicBits(f) ==
    [f EXCEPT !.fsSelection = set_nth_bit(@, 0), !.macStyle = set_nth_bit(@, 1)]

setRegularBit(f) == [f EXCEPT !.fsSelection = set_nth_bit(@, 6)]

clearBoldBits(f) ==
    [f EXCEPT !.fsSelection = unset_nth_bit(@, 5), !.macStyle = unset_nth_bit(@, 0)]

clearItalicBits(f) ==
    [f EXCEPT !.fsSelection = unset_nth_bit(@, 0), !.macStyle = unset_nth_bit(@, 1)]

clearRegularBit(f) == [f EXCEPT !.fsSelection = unset_nth_bit(@, 6)]

setBold(f) == clearRegularBit(setBoldBits(f))

setItalic(f) == clearRegularBit(setItalicBits(f))

setOblique(f) ==
    [f EXCEPT !.version = IF @ < 4 THEN 4 ELSE @,
              !.fsSelection = set_nth_bit(@, 9)]

unsetItalic(f) ==
    LET g == clearItalicBits(f)
    IN  IF ~isBold(g) THEN setRegularBit(g) ELSE g

unsetOblique(f) == [f EXCEPT !.fsSelection = unset_nth_bit(@, 9)]

setRegular(f) == clearItalicBits(clearBoldBits(setRegularBit(f)))

StrRegular == <<"R", "e", "g", "u", "l", "a", "r">>
StrItalic == <<"I", "t", "a", "l", "i", "c">>
StrBold == <<"B", "o", "l", "d">>
StrNormal == <<"N", "o", "r", "m", "a", "l">>
StrNor == <<"N", "o", "r">>
\* timestampToString(created), up to the last digit of the year
StrCreated ==
    <<"W", "e", "d", " ", "J", "a", "n", " ", " ", "1", " ", "0", "0", ":", "0", "0", ":", "0", "0", " ", "2", "0", "2">>
StrVersion == <<"V", "e", "r", "s", "i", "o", "n", " ">>

\* s.lower()
LowerCase(s) ==
    LET upper == <<"A", "B", "C", "D", "E", "F", "G", "H", "I", "J", "K", "L", "M",
                   "N", "O", "P", "Q", "R", "S", "T", "U", "V", "W", "X", "Y", "Z">>
        lower == <<"a", "b", "c", "d", "e", "f", "g", "h", "i", "j", "k", "l", "m",
                   "n", "o", "p", "q", "r", "s", "t", "u", "v", "w", "x", "y", "z">>
    IN  [i \in 1..Len(s) |->
            IF \E k \in 1..26 : upper[k] = s[i]
            THEN lower[CHOOSE k \in 1..26 : upper[k] = s[i]]
            ELSE s[i]]

\* "{} {}".format(a, b)
Format2(a, b) == a \o <<" ">> \o b

\* str(name) of what getName returned: the record's string, 'None' for None
StrOfName(ns, i) == IF i = 0 THEN NoneStr ELSE ns[i].string

RECURSIVE IntStr(_)
\* str(n) of an integer n >= 0
IntStr(n) ==
    LET digit == <<"0", "1", "2", "3", "4", "5", "6", "7", "8", "9">>[(n % 10) + 1]
    IN  IF n < 10 THEN <<digit>> ELSE IntStr(n \div 10) \o <<digit>>

RECURSIVE StripZeros(_)
\* The fraction digits of a float's str: no trailing zero, but one digit.
StripZeros(s) ==
    IF Len(s) > 1 /\ s[Len(s)] = "0" THEN StripZeros(SubSeq(s, 1, Len(s) - 1))
    ELSE s

\* str(round(x, 3)) of x = thousandths / 1000
FloatStr(thousandths) ==
    LET frac == thousandths % 1000
        digits == (IF frac < 10 THEN <<"0", "0">>
                   ELSE IF frac < 100 THEN <<"0">> ELSE <<>>) \o IntStr(frac)
    IN  IntStr(thousandths \div 1000) \o <<".">> \o StripZeros(digits)

RECURSIVE LJust(_, _, _)
\* s.ljust(width, fillchar)
LJust(s, width, fillchar) ==
    IF Len(s) >= width THEN s ELSE LJust(Append(s, fillchar), width, fillchar)

RECURSIVE LastWord(_)
\* s.split(" ")[-1]
LastWord(s) ==
    IF s = <<>> \/ s[Len(s)] = " " THEN <<>>
    ELSE Append(LastWord(SubSeq(s, 1, Len(s) - 1)), s[Len(s)])

\* for illegal_char in chars: s = s.replace(illegal_char, ''): what is left
\* of s without the characters of the set chars.
RemoveChars(s, chars) == SelectSeq(s, LAMBDA c : c \notin chars)

\* The replacements of --shorten-weight, --shorten-width, --shorten-slope
\* for one nameID.
Shorten(s, nameID, row, o) ==
    LET s1 == IF nameID \in o.shorten_weight
              THEN StrReplace(s, row.weight, row.wgt) ELSE s
        s2 == IF nameID \in o.shorten_width
              THEN StrReplace(s1, row.width, row.wdt) ELSE s1
    IN  IF nameID \in o.shorten_slope
        THEN StrReplace(s2, row.slope, row.slp) ELSE s2

\* setMultilingualName(nameID=..., string=...) in the default language 'en'
SetEnglishName(ns, f, nameID, string, windows, mac) ==
    setMultilingualName(ns, f.ltag, nameID, "en", string, windows, mac).names

\* Variant: nameID 16 and 17 are written on both platforms when they differ.
TypographicNameOnBothPlatforms(ns, f, nameID, string, refID) ==
    IF string # StrOfName(ns, getName(ns, refID, 3, 1, 1033))
    THEN SetEnglishName(ns, f, nameID, string, TRUE, TRUE)
    ELSE delMultilingualName(ns, nameID, "en", TRUE, TRUE)

\* The blocks of nameID 16 and 17: the name is written, in the Windows table
\* only, if it differs from nameID refID of the Windows table.
WriteTypographicName(ns, f, nameID, string, refID) ==
    IF string # StrOfName(ns, getName(ns, refID, 3, 1, 1033))
    THEN Bind(SetEnglishName(ns, f, nameID, string, TRUE, FALSE),
              LAMBDA m : delMultilingualName(m, nameID, "en", FALSE, TRUE))
    ELSE delMultilingualName(ns, nameID, "en", TRUE, TRUE)

\* Lines 47-65 and 107: the style bits and the weight and width classes.
RecalcStyle(f, row, o, bold) ==
    LET f1 == setRegular(f)
        f2 == IF row.is_italic # 0 THEN setItalic(f1) ELSE f1
        f3 == IF row.is_oblique # 0
              THEN IF o.oblique_not_italic
                   THEN unsetItalic(setItalic(setOblique(f2)))
                   ELSE setItalic(setOblique(f2))
              ELSE unsetOblique(f2)
        f4 == [f3 EXCEPT !.usWeightClass = row.usweightclass,
                         !.usWidthClass = row.uswidthclass]
    IN  IF bold THEN setBold(f4) ELSE f4

\* Lines 69-150: the strings, in the order in which the code computes them.
RecalcStrings(ns, f, row, o) ==
    LET is_oblique == row.is_oblique # 0
        is_italic  == row.is_italic # 0 /\ ~(is_oblique /\ o.oblique_not_italic)
        width  == row.width
        weight == row.weight
        slope  == row.slope
        \* lines 69-81
        family_name_ot ==
            IF LowerCase(width) # LowerCase(StrNormal) /\ ~o.isSuperFamily
            THEN Format2(row.family_name, width) ELSE row.family_name
        subfamily0 ==
            IF LowerCase(width) # LowerCase(StrNormal) /\ o.isSuperFamily
            THEN Format2(width, weight) ELSE weight
        subfamily_name_ot ==
            IF Len(slope) > 0
            THEN IF ~o.keep_regular
                 THEN Strip(StrReplace(StrReplace(Format2(subfamily0, slope),
                                                  StrRegular, <<>>),
                                       <<" ", " ">>, <<" ">>))
                 ELSE Format2(subfamily0, slope)
            ELSE subfamily0
        \* lines 85-91
        family0 ==
            Strip(StrReplace(
                Format2(Format2(row.family_name,
                                StrReplace(StrReplace(width, StrNormal, <<>>),
                                           StrNor, <<>>)),
                        weight),
                <<" ", " ">>, <<" ">>))
        family1 == IF Len(slope) > 0 /\ ~is_italic
                   THEN Format2(family0, slope) ELSE family0
        \* lines 94-110
        linked == Len(o.linked_styles) = 2
        bold == /\ linked
                /\ \A i \in 1..2 : o.linked_styles[i] <= row.usweightclass
                /\ \E i \in 1..2 : o.linked_styles[i] = row.usweightclass
        family_name_win ==
            IF linked /\ \E i \in 1..2 : o.linked_styles[i] = row.usweightclass
            THEN Strip(StrReplace(StrReplace(family1, weight, <<>>),
                                  <<" ", " ">>, <<" ">>))
            ELSE family1
        subfamily_name_win ==
            IF bold
            THEN IF is_italic THEN Format2(StrBold, StrItalic) ELSE StrBold
            ELSE IF is_italic \/ (is_oblique /\ ~o.oblique_not_italic)
                 THEN StrItalic ELSE StrRegular
        \* lines 113-134
        ps0 == RemoveChars(RemoveChars(family_name_ot, {".", "-"}) \o <<"-">>
                               \o RemoveChars(subfamily_name_ot, {".", "-"}),
                           {"[", "]", "{", "}", "<", ">", "/", "%"})
        ps1 == IF o.regular_italic
               THEN StrReplace(ps0, <<"-">> \o StrItalic,
                               <<"-">> \o StrRegular \o StrItalic)
               ELSE ps0
        postscript_name ==
            IF 6 \notin o.namerecords_to_ignore
            THEN RemoveChars(Shorten(ps1, 6, row, o), {" ", "."})
            ELSE StrOfName(ns, getName(ns, 6, 3, 1, 1033))
        \* lines 137-150
        ach_vend_id == StrReplace(StrReplace(f.achVendID, <<" ">>, <<>>),
                                  <<"\\", "x", "0", "0">>, <<>>)
        font_revision == LJust(FloatStr(f.fontRevision), 5, "0")
        unique_id ==
            IF o.alt_uid
            THEN StrOfName(ns, getName(ns, 8, 3, 1, 1033)) \o <<":", " ">>
                 \o family_name_ot \o <<"-">> \o subfamily_name_ot
                 \o <<":", " ">> \o LastWord(f.created)
            ELSE font_revision \o <<";">> \o LJust(ach_vend_id, 4, " ")
                 \o <<";">> \o postscript_name
    IN  [bold |-> bold,
         family_name_ot |-> family_name_ot,
         subfamily_name_ot |-> subfamily_name_ot,
         family_name_win |-> family_name_win,
         subfamily_name_win |-> subfamily_name_win,
         postscript_name |-> postscript_name,
         version_string |-> StrVersion \o font_revision,
         unique_id |-> unique_id,
         full_font_name |-> Format2(family_name_ot, subfamily_name_ot)]

\* Lines 155-251: the block of each nameID acts on the names list that the
\* block before it left; s holds the strings of RecalcStrings.
RecalcWrites(ns, f, row, o, s) ==
    LET Ignored(nameID) == nameID \in o.namerecords_to_ignore
        name_id_16 == Shorten(s.family_name_ot, 16, row, o)
        name_id_17 == Shorten(s.subfamily_name_ot, 17, row, o)
        name_id_18 == Shorten(s.full_font_name, 18, row, o)
        Block1(n) ==
            IF Ignored(1) THEN n
            ELSE SetEnglishName(n, f, 1, Shorten(s.family_name_win, 1, row, o),
                                TRUE, TRUE)
        Block2(n) ==
            IF Ignored(2) THEN n
            ELSE SetEnglishName(n, f, 2, s.subfamily_name_win, TRUE, TRUE)
        Block3(n) ==
            IF Ignored(3) THEN n
            ELSE Bind(SetEnglishName(n, f, 3, Shorten(s.unique_id, 3, row, o),
                                     TRUE, FALSE),
                      LAMBDA m : delMultilingualName(m, 3, "en", FALSE, TRUE))
        Block4(n) ==
            IF Ignored(4) THEN n
            ELSE SetEnglishName(n, f, 4,
                                IF o.old_full_font_name THEN s.postscript_name
                                ELSE Shorten(s.full_font_name, 4, row, o),
                                TRUE, TRUE)
        Block5(n) ==
            IF Ignored(5) THEN n
            ELSE SetEnglishName(n, f, 5, s.version_string, TRUE, TRUE)
        Block6(n) ==
            IF Ignored(6) THEN n
            ELSE SetEnglishName(n, f, 6, s.postscript_name, TRUE, TRUE)
        Block16(n) ==
            IF Ignored(16) THEN n
            ELSE WriteTypographicName(n, f, 16, name_id_16, 1)
        Block17(n) ==
            IF Ignored(17) THEN n
            ELSE WriteTypographicName(n, f, 17, name_id_17, 2)
        Block18(n) ==
            IF Ignored(18) THEN n
            ELSE IF name_id_18 # StrOfName(n, getName(n, 4, 1, 0, 0))
            THEN SetEnglishName(n, f, 18, name_id_18, FALSE, TRUE)
            ELSE delMultilingualName(n, 18, "en", TRUE, TRUE)
    IN  Bind(Block1(ns), LAMBDA n1 :
        Bind(Block2(n1), LAMBDA n2 :
        Bind(Block3(n2), LAMBDA n3 :
        Bind(Block4(n3), LAMBDA n4 :
        Bind(Block5(n4), LAMBDA n5 :
        Bind(Block6(n5), LAMBDA n6 :
        Bind(Block16(n6), LAMBDA n16 :
        Bind(Block17(n16), LAMBDA n17 :
            [names |-> Block18(n17),
             name_id_16 |-> name_id_16,
             name_id_17 |-> name_id_17]))))))))

\* The font, its names list, and the strings computed for nameID 16 and 17.
recalcNames(ns, f, row, o) ==
    Bind(RecalcStrings(ns, f, row, o), LAMBDA s :
    Bind(RecalcWrites(ns, f, row, o, s), LAMBDA w :
        LET f5 == RecalcStyle(f, row, o, s.bold)
            \* lines 254-258
            f6 == IF f.hasCFF /\ o.fixCFF
                  THEN [f5 EXCEPT !.cff = [fontNames |-> <<s.postscript_name>>,
                                           FullName |-> s.full_font_name,
                                           FamilyName |-> s.family_name_ot,
                                           Weight |-> row.weight]]
                  ELSE f5
        IN  [names |-> w.names, font |-> f6,
             name_id_16 |-> w.name_id_16, name_id_17 |-> w.name_id_17]))

\* The rows of the CSV file: style flags, width and weight classes with
\* their long and short words, the slope words, the family name.
FontData ==
    { [is_italic |-> it, is_oblique |-> ob,
       uswidthclass |-> wd[1], wdt |-> wd[2], width |-> wd[3],
       usweightclass |-> wg[1], wgt |-> wg[2], weight |-> wg[3],
       slp |-> sl[1], slope |-> sl[2], family_name |-> <<"F", "a">>] :
        it \in {0, 1}, ob \in {0, 1},
        wd \in { <<5, StrNor, StrNormal>>, <<3, <<"C", "n">>, <<"C", "o", "n", "d">>>> },
        wg \in { <<400, <<"R", "g">>, StrRegular>>, <<700, <<"B", "d">>, StrBold>> },
        sl \in { <<<<>>, <<>>>>, <<<<"I", "t">>, StrItalic>> } }

\* Every switch off, or every switch on.
RecalcSwitches == {FALSE, TRUE}

ShortenedIDs == {1, 3, 4, 6, 16, 17, 18}

RecalcOptions ==
    { [namerecords_to_ignore |-> ig,
       shorten_weight |-> IF sw THEN ShortenedIDs ELSE {},
       shorten_width |-> IF sw THEN ShortenedIDs ELSE {},
       shorten_slope |-> IF sw THEN ShortenedIDs ELSE {},
       fixCFF |-> sw, alt_uid |-> sw, regular_italic |-> sw,
       old_full_font_name |-> sw,
       linked_styles |-> ls, isSuperFamily |-> sf, keep_regular |-> kr,
       oblique_not_italic |-> oni] :
        ig \in {{}, {1, 2}, {16, 17}}, sw \in RecalcSwitches,
        ls \in {<<>>, <<400, 700>>, <<700, 400>>},
        sf \in BOOLEAN, kr \in BOOLEAN, oni \in BOOLEAN }

\* A font without names, and one with English and Italian names on both
\* platforms whose Windows nameID 1 and 2 are 'Fa' and 'Regular'.
RecalcTables ==
    { <<>>,
      << makeName(<<"x">>, 16, 1, 0, 0), makeName(<<"x">>, 17, 1, 0, 0),
         makeName(<<"x">>, 16, 1, 0, 3),
         makeName(<<"F", "a">>, 1, 3, 1, 1033), makeName(StrRegular, 2, 3, 1, 1033),
         makeName(<<"x">>, 16, 3, 1, 1033), makeName(<<"x">>, 17, 3, 1, 1033),
         makeName(<<"x">>, 17, 3, 1, 1040) >> }

\* A regular font with OS/2 version 3 and a 'CFF ' table; a bold italic
\* oblique font with OS/2 version 4 and no 'CFF ' table.
RecalcFonts ==
    { [fsSelection |-> 64, macStyle |-> 0, version |-> 3,
       usWeightClass |-> 400, usWidthClass |-> 5,
       achVendID |-> <<"A", "B", " ", " ">>, fontRevision |-> 1000,
       created |-> StrCreated \o <<"0">>,
       hasCFF |-> TRUE,
       cff |-> [fontNames |-> <<>>, FullName |-> <<>>, FamilyName |-> <<>>,
                Weight |-> <<>>],
       ltag |-> <<>>],
      [fsSelection |-> 545, macStyle |-> 3, version |-> 4,
       usWeightClass |-> 700, usWidthClass |-> 5,
       achVendID |-> <<"A", "B", "C", "D">>, fontRevision |-> 2050,
       created |-> StrCreated \o <<"1">>,
       hasCFF |-> FALSE,
       cff |-> [fontNames |-> <<>>, FullName |-> <<>>, FamilyName |-> <<>>,
                Weight |-> <<>>],
       ltag |-> <<>>] }

InitRecalc ==
    /\ names \in RecalcTables
    /\ names0 = names
    /\ call = [op |-> "load"]
    /\ ttFont \in RecalcFonts
    /\ GlyfIdle
    /\ CliIdle

RecalcNames ==
    /\ call.op = "load"
    /\ \E row \in FontData, o \in RecalcOptions :
        \E r \in {recalcNames(names, ttFont, row, o)} :
            /\ names' = r.names
            /\ ttFont' = r.font
            /\ call' = [op |-> "recalcNames", font_data |-> row, options |-> o,
                        name_id_16 |-> r.name_id_16,
                        name_id_17 |-> r.name_id_17]
    /\ names0' = names
    /\ UNCHANGED <<glyfVars, cliVars>>

NextRecalc == RecalcNames

SpecRecalc == InitRecalc /\ [][NextRecalc]_vars

(***************************************************************************)
(* Claims about recalcNames                                                *)
(***************************************************************************)

\* The English records of a nameID: Windows Unicode 0x409, Macintosh Roman 0.
WindowsEnglish(ns, nameID) ==
    SelectSeq(ns, LAMBDA r : r.nameID = nameID /\ r.platformID = 3
                             /\ r.platEncID = 1 /\ r.langID = 1033)

MacEnglish(ns, nameID) ==
    SelectSeq(ns, LAMBDA r : r.nameID = nameID /\ r.platformID = 1
                             /\ r.langID = 0)

\* C14 as stated: after recalcNames with nameID 2 not ignored, the Windows
\* and the Macintosh English subfamily name is one of Regular, Italic, Bold,
\* Bold Italic; it contains Bold exactly when the bold bits of the font are
\* set and Italic exactly when the italic bits are set.
C14_SubfamilyMatchesStyleBits ==
    (call.op = "recalcNames" /\ 2 \notin call.options.namerecords_to_ignore) =>
        /\ Len(WindowsEnglish(names, 2)) = 1
        /\ Len(MacEnglish(names, 2)) = 1
        /\ \A s \in {WindowsEnglish(names, 2)[1].string, MacEnglish(names, 2)[1].string} :
              /\ s \in {StrRegular, StrItalic, StrBold, Format2(StrBold, StrItalic)}
              /\ Contains(s, StrBold) <=> isBold(ttFont)
              /\ Contains(s, StrItalic) <=> isItalic(ttFont)

\* The name agrees with the string nameID refID has in the Windows table:
\* then no English record of the nameID is left; otherwise the only English
\* record of the nameID is the Windows one, with the name.
TypographicNameWritten(nameID, string, refID) ==
    IF string = StrOfName(names, getName(names, refID, 3, 1, 1033))
    THEN /\ WindowsEnglish(names, nameID) = <<>>
         /\ MacEnglish(names, nameID) = <<>>
    ELSE /\ WindowsEnglish(names, nameID) = <<makeName(string, nameID, 3, 1, 1033)>>
         /\ MacEnglish(names, nameID) = <<>>

\* C15: after recalcNames with nameID 16 (17) not ignored, if the computed
\* typographic family (subfamily) name differs from the Windows English
\* nameID 1 (2) string, nameID 16 (17) is a Windows English record only and
\* no Macintosh English record of it remains; if it is equal, no English
\* record of nameID 16 (17) remains on either platform.
C15_TypographicNamesWindowsOnly ==
    call.op = "recalcNames" =>
        /\ 16 \notin call.options.namerecords_to_ignore =>
              TypographicNameWritten(16, call.name_id_16, 1)
        /\ 17 \notin call.options.namerecords_to_ignore =>
              TypographicNameWritten(17, call.name_id_17, 2)

\* C15 witness: a font that had Macintosh and Windows English nameID 16 and
\* 17; nameID 16 equals the family name and is gone from both platforms,
\* nameID 17 differs from the subfamily name and is in the Windows table only.
C15_Witness ==
    /\ call.op = "recalcNames"
    /\ call.options.namerecords_to_ignore = {}
    /\ MacEnglish(names0, 16) # <<>> /\ MacEnglish(names0, 17) # <<>>
    /\ WindowsEnglish(names0, 16) # <<>>
    /\ call.name_id_16 = WindowsEnglish(names, 1)[1].string
    /\ WindowsEnglish(names, 16) = <<>> /\ MacEnglish(names, 16) = <<>>
    /\ call.name_id_17 # WindowsEnglish(names, 2)[1].string
    /\ Len(WindowsEnglish(names, 17)) = 1
    /\ WindowsEnglish(names, 17)[1].string = call.name_id_17
    /\ MacEnglish(names, 17) = <<>>

(***************************************************************************)
(* TTFontCLI.modifyLinegapPercent.  ttFont is a record of the fields of    *)
(* hhea (ascent, descent, lineGap), OS/2 (sTypoAscender, sTypoDescender,   *)
(* sTypoLineGap, usWinAscent, usWinDescent) and head (unitsPerEm); tables  *)
(* tells whether the font has the three tables.                            *)
(***************************************************************************)

\* Python int(a / b) for b > 0: the quotient truncated towards zero.
TruncDiv(a, b) == IF a >= 0 THEN a \div b ELSE -((-a) \div b)

\* What modifyLinegapPercent writes when the Adobe case is taken for the
\* Google one as well.
AdobeLikeGoogle(f, percent) ==
    LET line_spacing_units == TruncDiv(percent * f.unitsPerEm, 100)
        total_height == line_spacing_units + f.unitsPerEm
        delta_height == total_height - (f.ascent + -(f.descent))
        upper_lower_add_units == TruncDiv(delta_height, 2)
    IN  IF f.sTypoLineGap = 0 /\ f.sTypoAscender + -(f.sTypoDescender) >= f.unitsPerEm
        THEN [f EXCEPT !.lineGap = 0,
                       !.sTypoAscender = @ + upper_lower_add_units,
                       !.sTypoDescender = @ - upper_lower_add_units,
                       !.ascent = @ + upper_lower_add_units,
                       !.descent = @ - upper_lower_add_units,
                       !.usWinAscent = f.ascent + upper_lower_add_units,
                       !.usWinDescent = -(f.descent - upper_lower_add_units)]
        ELSE LET hhea_ascent == TruncDiv(2 * f.sTypoAscender + line_spacing_units, 2)
                 hhea_descent == -(total_height - hhea_ascent)
             IN  [f EXCEPT !.lineGap = 0,
                           !.sTypoLineGap = line_spacing_units,
                           !.ascent = hhea_ascent,
                           !.descent = hhea_descent,
                           !.usWinAscent = hhea_ascent,
                           !.usWinDescent = -hhea_descent]

\* The fields after the try block has run to its end.  factor * units_per_em
\* is taken as the exact product.
modifyLinegapPercent(f, percent) ==
    LET os2_typo_ascdesc_delta == f.sTypoAscender + -(f.sTypoDescender)
        hhea_ascdesc_delta == f.ascent + -(f.descent)
        line_spacing_units == TruncDiv(percent * f.unitsPerEm, 100)
        total_height == line_spacing_units + f.unitsPerEm
        delta_height == total_height - hhea_ascdesc_delta
        upper_lower_add_units == TruncDiv(delta_height, 2)
    IN  IF f.sTypoLineGap = 0 /\ os2_typo_ascdesc_delta > f.unitsPerEm
        THEN [f EXCEPT !.lineGap = 0,
                       !.sTypoAscender = @ + upper_lower_add_units,
                       !.sTypoDescender = @ - upper_lower_add_units,
                       !.ascent = @ + upper_lower_add_units,
                       !.descent = @ - upper_lower_add_units,
                       !.usWinAscent = f.ascent + upper_lower_add_units,
                       !.usWinDescent = -(f.descent - upper_lower_add_units)]
        ELSE IF f.sTypoLineGap = 0 /\ os2_typo_ascdesc_delta = f.unitsPerEm
        THEN [f EXCEPT !.lineGap = 0,
                       !.ascent = @ + upper_lower_add_units,
                       !.descent = @ - upper_lower_add_units,
                       !.usWinAscent = f.ascent + upper_lower_add_units,
                       !.usWinDescent = -(f.descent - upper_lower_add_units)]
        ELSE LET hhea_ascent == TruncDiv(2 * f.sTypoAscender + line_spacing_units, 2)
                 hhea_descent == -(total_height - hhea_ascent)
             IN  [f EXCEPT !.lineGap = 0,
                           !.sTypoLineGap = line_spacing_units,
                           !.ascent = hhea_ascent,
                           !.descent = hhea_descent,
                           !.usWinAscent = hhea_ascent,
                           !.usWinDescent = -hhea_descent]

MetricFonts ==
    [tables : BOOLEAN, unitsPerEm : {1000, 2048},
     ascent : {801, 1000}, descent : {-200, -300}, lineGap : {0, 90},
     sTypoAscender : {750, 800, 900}, sTypoDescender : {-200, -250},
     sTypoLineGap : {0, 200},
     usWinAscent : {1000}, usWinDescent : {300}]

Percents == {-15, 0, 20, 25}

InitMetrics ==
    /\ ttFont \in MetricFonts
    /\ names = <<>>
    /\ names0 = <<>>
    /\ call = [op |-> "load"]
    /\ GlyfIdle
    /\ CliIdle

\* modifyLinegapPercent completes.
ModifyLinegapPercent ==
    /\ call.op = "load"
    /\ ttFont.tables
    /\ \E percent \in Percents :
        /\ ttFont' = modifyLinegapPercent(ttFont, percent)
        /\ call' = [op |-> "modifyLinegapPercent", percent |-> percent,
                    before |-> ttFont]
    /\ UNCHANGED <<names, names0, glyfVars, cliVars>>

\* A table is missing: the exception is reported and the program exits.
ModifyLinegapExit ==
    /\ call.op = "load"
    /\ ~ttFont.tables
    /\ \E percent \in Percents :
        call' = [op |-> "sys.exit", percent |-> percent, before |-> ttFont]
    /\ UNCHANGED <<ttFont, names, names0, glyfVars, cliVars>>

NextMetrics == ModifyLinegapPercent \/ ModifyLinegapExit

SpecMetrics == InitMetrics /\ [][NextMetrics]_vars

(***************************************************************************)
(* Claims about modifyLinegapPercent                                       *)
(***************************************************************************)

\* The Google case: no typo line gap, typo ascender - descender above the em.
GoogleApproach(f) ==
    f.sTypoLineGap = 0 /\ f.sTypoAscender - f.sTypoDescender > f.unitsPerEm

\* The Adobe case: no typo line gap, typo ascender - descender is the em.
AdobeApproach(f) ==
    f.sTypoLineGap = 0 /\ f.sTypoAscender - f.sTypoDescender = f.unitsPerEm

\* C16: after modifyLinegapPercent has completed, hhea.lineGap is 0,
\* usWinAscent is hhea.ascent and usWinDescent is -hhea.descent; sTypoAscender
\* and sTypoDescender differ from before only in the Google case, and
\* sTypoLineGap differs from before only in the third case.
C16_LinegapMetrics ==
    call.op = "modifyLinegapPercent" =>
        LET before == call.before
        IN  /\ ttFont.lineGap = 0
            /\ ttFont.usWinAscent = ttFont.ascent
            /\ ttFont.usWinDescent = -ttFont.descent
            /\ ttFont.unitsPerEm = before.unitsPerEm
            /\ ( \/ ttFont.sTypoAscender # before.sTypoAscender
                 \/ ttFont.sTypoDescender # before.sTypoDescender )
                  => GoogleApproach(before)
            /\ ttFont.sTypoLineGap # before.sTypoLineGap
                  => (~GoogleApproach(before) /\ ~AdobeApproach(before))

\* C16 witness: the Adobe case with a line gap to remove and a negative odd
\* height difference: ascent and descent moved by its half, truncated
\* towards zero, and the typo values stayed.
C16_Witness ==
    /\ call.op = "modifyLinegapPercent"
    /\ AdobeApproach(call.before)
    /\ call.before.lineGap # 0
    /\ ttFont.lineGap = 0
    /\ LET before == call.before
           delta_height == TruncDiv(call.percent * before.unitsPerEm, 100)
                           + before.unitsPerEm - (before.ascent - before.descent)
       IN  /\ delta_height < 0
           /\ delta_height % 2 = 1
           /\ ttFont.ascent - before.ascent = -((-delta_height) \div 2)
           /\ before.descent - ttFont.descent = -((-delta_height) \div 2)
    /\ ttFont.usWinAscent = ttFont.ascent
    /\ ttFont.usWinDescent = -ttFont.descent
    /\ ttFont.sTypoAscender = call.before.sTypoAscender
    /\ ttFont.sTypoLineGap = 0

====
